---- MODULE Spec2Model ----
(***************************************************************************)
(* Monte Carlo Tree Search of the chess engine (src/code/mcts.py) and the  *)
(* game loop that drives it (src/game.py, src/agent.py).                   *)
(*                                                                         *)
(* The tree is a heap of Node and Edge objects.  One control flow runs the *)
(* simulations; the only concurrency is the fan-out of map_valid_move      *)
(* worker threads inside probabilities_to_actions.                         *)
(***************************************************************************)
EXTENDS Integers, Sequences, FiniteSets, TLC

\* ------------------------------------------------------------------ bounds
\* Plies after which the abstract game is over.
MaxPly == 4
\* Simulations all calls together may run.
MaxSims == 4
\* MCTS objects a caller may construct directly.
MaxTrees == 1
\* Calls of play_move a caller may make directly.
MaxPlayMoves == 1
\* config.SIMULATIONS_PER_MOVE (game.py:104); config.py sets the real value.
SIMULATIONS_PER_MOVE == 2

\* ------------------------------------------------------------- vocabulary
\* Python's None where an object reference (a node, an edge) is expected;
\* objects are numbered from 1.
None == 0
\* outcome.winner of a drawn game
NoWinner == "None"
WHITE == "WHITE"
BLACK == "BLACK"
Agents == {"white", "black"}
\* The agent whose tree the direct calls of the library work on.
Callers == {"white"}

\* ----------------------------------------------------------- rules engine
\* A position is the sequence of moves played from the starting position
\* (what a FEN string stands for here); a move is an index into MoveTable.
STARTING_FEN == << >>

MoveTable ==
    << [uci |-> "e2e3", from_square |-> 12, plane_index |-> 0],
       [uci |-> "g1f3", from_square |-> 6,  plane_index |-> 56],
       [uci |-> "e2e4", from_square |-> 12, plane_index |-> 1] >>

Moves == DOMAIN MoveTable

uci(m) == MoveTable[m].uci

\* chess.Board(fen).turn
turn_of(s) == IF Len(s) % 2 = 0 THEN WHITE ELSE BLACK

\* board.is_game_over(): the ply limit is reached, or the answer to move 2
\* was move 2 (checkmate) or move 3 (stalemate).
is_game_over(s) ==
    \/ Len(s) >= MaxPly
    \/ Len(s) >= 2 /\ s[Len(s) - 1] = 2 /\ s[Len(s)] \in {2, 3}

\* list(board.generate_legal_moves()), in the engine's enumeration order.
generate_legal_moves(s) ==
    IF is_game_over(s) THEN << >>
    ELSE IF Len(s) = 0 THEN << 1, 2 >>
    ELSE IF Len(s) >= 2 /\ s[Len(s)] = 2 THEN << 1, 2, 3 >>
    ELSE << 2, 3 >>

\* board.outcome(claim_draw=True).winner of a finished game: None for a draw
\* (the last move was move 3), else the side that made the last move.
outcome_winner(s) ==
    IF s[Len(s)] = 3 THEN NoWinner
    ELSE IF Len(s) % 2 = 1 THEN WHITE ELSE BLACK

\* board.outcome(claim_draw=True): no outcome while the game is not over.
outcome(s) ==
    IF is_game_over(s) THEN [none |-> FALSE, winner |-> outcome_winner(s)]
    ELSE [none |-> TRUE, winner |-> NoWinner]

\* Node.step: the position after the move.
step(s, m) == Append(s, m)

\* The positions a caller constructs a tree for: the starting position and
\* a finished game.
TreeStates == { STARTING_FEN, << 2, 3 >> }

\* -------------------------------------------------------------- evaluator
\* A probability is a pair <<numerator, denominator>>.
\* The cell of the policy vector a move is read from: (plane, row, col) as
\* map_valid_move computes them from the move's origin square.
cell_of(m) ==
    << MoveTable[m].plane_index,
       MoveTable[m].from_square % 8,
       7 - (MoveTable[m].from_square \div 8) >>

\* The cells of the 73 x 8 x 8 policy vector the model keeps: those of the
\* moves, and one cell no legal move maps to.
PolicyCells == { cell_of(m) : m \in Moves } \cup { << 72, 0, 0 >> }

\* Two policy vectors: a uniform one, and one that prefers the knight move.
UniformPolicy == [c \in PolicyCells |-> << 1, 4 >>]
KnightPolicy ==
    [c \in PolicyCells |-> IF c[1] = 56 THEN << 1, 2 >> ELSE << 1, 8 >>]

\* agent.predict(input_state): the answers (p, v) the evaluator may give.
predict ==
    { [p |-> UniformPolicy, v |-> 1],
      [p |-> KnightPolicy, v |-> 0],
      [p |-> KnightPolicy, v |-> -1] }

\* Exploration constant of the upper-confidence score.
C_PUCT == 1

\* np.random.dirichlet([DIRICHLET_NOISE] * n): a positive vector summing to 1.
dirichlet(n) ==
    LET W == [1 .. n -> {1, 3}]
        RECURSIVE sum(_, _)
        sum(w, i) == IF i = 0 THEN 0 ELSE w[i] + sum(w, i - 1)
    IN  { [i \in 1 .. n |-> << w[i], sum(w, n) >>] : w \in W }

\* noise = [1 for _ in range(n)]
no_noise(n) == [i \in 1 .. n |-> << 1, 1 >>]

\* ------------------------------------------------------------------ state
VARIABLES
    nodes,            \* heap of Node objects: state, edges, N, value
    edges,            \* heap of Edge objects: input_node, output_node, action, N, W, P
    trees,            \* heap of MCTS objects: root, game_path, stochastic
    mcts,             \* agent.mcts of each agent: its MCTS object
    board,            \* env.board: the position of the game being played
    turn,             \* Game.turn
    memory,           \* Game.memory: per game, the (state, search probabilities, winner) entries
    pc,               \* where the single control flow is
    cur,              \* the agent whose tree the running call works on
    simsLeft,         \* iterations left in the loop of run_simulations
    retTo,            \* who called run_simulations
    leaf,             \* run_simulations' leaf
    possible_actions, \* expand's possible_actions
    pv,               \* expand's (p, v), the evaluator's answer
    threads,          \* probabilities_to_actions' threads, each running or done
    outputs,          \* self.outputs, the list the workers append to
    actions,          \* the dictionary probabilities_to_actions returns
    joined,           \* how many threads the join loop has waited for
    pm,               \* play_move's stochastic and previous_moves[1], used after the search
    result,           \* the last call's return value
    err,              \* the exception that escaped the last call, if any
    simCount,         \* simulations asked for so far, by any call
    treeCount,        \* MCTS objects constructed directly so far
    pmCount,          \* direct calls of play_move so far
    leafSel,          \* per node: simulations that selected it as their leaf
    passed,           \* per node: simulations that descended through it
    writes,           \* per entry of outputs: who appended it, with whom alive
    tp                \* train_puzzles' frame: its puzzles, counter, solved

heapVars == << nodes, edges, trees, mcts >>
gameVars == << board, turn, memory >>
simVars == << cur, simsLeft, retTo, leaf >>
expVars == << possible_actions, pv, threads, outputs, actions, joined >>
callVars == << pm, result, err >>
capVars == << simCount, treeCount, pmCount >>
histVars == << leafSel, passed, writes >>
vars == << heapVars, gameVars, pc, simVars, expVars, callVars, capVars,
          histVars, tp >>

\* ------------------------------------------------------------ Node / Edge
\* Node(state)
Node(state) == [state |-> state, edges |-> << >>, N |-> 0, value |-> 0]

\* Edge(input_node, output_node, action, prior)
Edge(input_node, output_node, action, prior) ==
    [input_node |-> input_node, output_node |-> output_node,
     action |-> action, N |-> 0, W |-> 0, P |-> prior]

\* Node.is_leaf
is_leaf(n) == nodes[n].edges = << >>

\* Node.get_edge(action): the first edge with that action, or None.
get_edge_in(ns, es, n, action) ==
    LET hits == { i \in DOMAIN ns[n].edges : es[ns[n].edges[i]].action = action }
    IN  IF hits = {} THEN None
        ELSE ns[n].edges[CHOOSE i \in hits : \A j \in hits : i <= j]

get_edge(n, action) == get_edge_in(nodes, edges, n, action)

\* sum(e.N for e in moves)
RECURSIVE sum_N(_, _)
sum_N(es, moves) ==
    IF moves = << >> THEN 0 ELSE es[Head(moves)].N + sum_N(es, Tail(moves))

\* MCTS(agent, state, stochastic), root being the new Node(state).
MCTS(root, stochastic) ==
    [root |-> root, game_path |-> << >>, stochastic |-> stochastic]

\* -------------------------------------------------------------- selection
\* Edge.upper_confidence_bound(noise): Q + C_PUCT * P * noise *
\* sqrt(input_node.N) / (1 + N), kept exact as Q = qn/qd and the factor
\* un/ud of sqrt(parentN).
upper_confidence_bound(e, noise) ==
    [qn |-> IF edges[e].N > 0 THEN edges[e].W ELSE 0,
     qd |-> IF edges[e].N > 0 THEN edges[e].N ELSE 1,
     un |-> C_PUCT * edges[e].P[1] * noise[1],
     ud |-> edges[e].P[2] * noise[2] * (1 + edges[e].N),
     parentN |-> nodes[edges[e].input_node].N]

\* a > b for two scores of edges of one node: with x = (Qa - Qb) and
\* y = (Ub - Ua) over a common positive denominator, x > y * sqrt(parentN).
greater(a, b) ==
    LET x == (a.qn * b.qd - b.qn * a.qd) * (a.ud * b.ud)
        y == (b.un * a.ud - a.un * b.ud) * (a.qd * b.qd)
        n == a.parentN
    IN  IF x >= 0
        THEN IF y <= 0 THEN x > 0 \/ (y < 0 /\ n > 0)
             ELSE x * x > y * y * n
        ELSE y < 0 /\ x * x < y * y * n

\* The loop over enumerate(node.edges) with >= for >, the last of the best
\* edges winning: the variant C14 is tested against.
RECURSIVE best_edge_last(_, _, _, _)
best_edge_last(node, noise, i, best) ==
    IF i > Len(nodes[node].edges) THEN best
    ELSE IF \/ best = 0
            \/ ~greater(upper_confidence_bound(nodes[node].edges[best], noise[best]),
                        upper_confidence_bound(nodes[node].edges[i], noise[i]))
         THEN best_edge_last(node, noise, i + 1, i)
         ELSE best_edge_last(node, noise, i + 1, best)

\* The loop over enumerate(node.edges): i is the next index, best the index
\* of best_edge so far (0 for None, whose score is -inf).
RECURSIVE best_edge(_, _, _, _)
best_edge(node, noise, i, best) ==
    IF i > Len(nodes[node].edges) THEN best
    ELSE IF \/ best = 0
            \/ greater(upper_confidence_bound(nodes[node].edges[i], noise[i]),
                       upper_confidence_bound(nodes[node].edges[best], noise[best]))
         THEN best_edge(node, noise, i + 1, i)
         ELSE best_edge(node, noise, i + 1, best)

\* select_child returning the node it is given, edges or not: the variant
\* C17 is tested against.
select_child_no_descent(t, node, z, game_path) ==
    [leaf |-> node, game_path |-> game_path]

\* select_child leaving its loop after one descent: the variant C12 is
\* tested against.
select_child_one_descent(t, node, z, game_path) ==
    IF is_leaf(node) THEN [leaf |-> node, game_path |-> game_path]
    ELSE LET noise == IF t.stochastic /\ node = t.root THEN z
                      ELSE no_noise(Len(nodes[node].edges))
             e == nodes[node].edges[best_edge(node, noise, 1, 0)]
         IN  [leaf |-> edges[e].output_node,
              game_path |-> Append(game_path, e)]

\* MCTS.select_child: descend from node until a leaf; z is the Dirichlet
\* sample drawn at the root of a stochastic tree.  The result is the leaf
\* and the game_path with the traversed edges appended.
RECURSIVE select_child(_, _, _, _)
select_child(t, node, z, game_path) ==
    IF is_leaf(node) THEN [leaf |-> node, game_path |-> game_path]
    ELSE LET noise == IF t.stochastic /\ node = t.root THEN z
                      ELSE no_noise(Len(nodes[node].edges))
             e == nodes[node].edges[best_edge(node, noise, 1, 0)]
         IN  select_child(t, edges[e].output_node, z, Append(game_path, e))

\* The noise samples one descent from the root of t can draw.
noise_samples(t) ==
    IF t.stochastic /\ ~is_leaf(t.root)
    THEN dirichlet(Len(nodes[t.root].edges)) ELSE { << >> }

\* ------------------------------------------------------- backpropagation
\* backpropagate whose loop runs over no edge: the variant C20 is tested
\* against.
backpropagate_no_edge(ns, es, game_path, value) ==
    [nodes |-> ns, edges |-> es]

\* backpropagate counting the visit on every edge of the input node: the
\* variant C15 is tested against.
RECURSIVE backpropagate_all_siblings(_, _, _, _)
backpropagate_all_siblings(ns, es, game_path, value) ==
    IF game_path = << >> THEN [nodes |-> ns, edges |-> es]
    ELSE LET e == Head(game_path)
             n == es[e].input_node
         IN  backpropagate_all_siblings(
                 [ns EXCEPT ![n].N = @ + 1],
                 [f \in DOMAIN es |->
                     IF f = e THEN [es[f] EXCEPT !.N = @ + 1, !.W = @ + value]
                     ELSE IF es[f].input_node = n THEN [es[f] EXCEPT !.N = @ + 1]
                     ELSE es[f]],
                 Tail(game_path), value)

\* backpropagate with the sign of the value changing from each edge to the
\* next: the variant C13 is tested against.
RECURSIVE backpropagate_alternating(_, _, _, _)
backpropagate_alternating(ns, es, game_path, value) ==
    IF game_path = << >> THEN [nodes |-> ns, edges |-> es]
    ELSE LET e == Head(game_path)
         IN  backpropagate_alternating(
                 [ns EXCEPT ![es[e].input_node].N = @ + 1],
                 [es EXCEPT ![e].N = @ + 1, ![e].W = @ + value],
                 Tail(game_path), 0 - value)

\* backpropagate without "edge.input_node.N += 1": the variant C1 is
\* tested against.
RECURSIVE backpropagate_skips_node(_, _, _, _)
backpropagate_skips_node(ns, es, game_path, value) ==
    IF game_path = << >> THEN [nodes |-> ns, edges |-> es]
    ELSE LET e == Head(game_path)
         IN  backpropagate_skips_node(
                 ns,
                 [es EXCEPT ![e].N = @ + 1, ![e].W = @ + value],
                 Tail(game_path), value)

\* backpropagate without "edge.N += 1": the variant C2 is tested against.
RECURSIVE backpropagate_skips_edge(_, _, _, _)
backpropagate_skips_edge(ns, es, game_path, value) ==
    IF game_path = << >> THEN [nodes |-> ns, edges |-> es]
    ELSE LET e == Head(game_path)
         IN  backpropagate_skips_edge(
                 [ns EXCEPT ![es[e].input_node].N = @ + 1],
                 [es EXCEPT ![e].W = @ + value],
                 Tail(game_path), value)

\* MCTS.backpropagate: for every edge of game_path, in order.
RECURSIVE backpropagate(_, _, _, _)
backpropagate(ns, es, game_path, value) ==
    IF game_path = << >> THEN [nodes |-> ns, edges |-> es]
    ELSE LET e == Head(game_path)
         IN  backpropagate(
                 [ns EXCEPT ![es[e].input_node].N = @ + 1],
                 [es EXCEPT ![e].N = @ + 1, ![e].W = @ + value],
                 Tail(game_path), value)

\* -------------------------------------------------------------- expansion
\* terminal_value with the two signs exchanged: the variant C7 is tested
\* against.
terminal_value_negated(s) ==
    IF outcome(s).none THEN 0
    ELSE IF outcome(s).winner = WHITE THEN -1 ELSE 1

\* The value expand gives a position without legal moves.
terminal_value(s) ==
    IF outcome(s).none THEN 0
    ELSE IF outcome(s).winner = WHITE THEN 1 ELSE -1

\* The loop over self.outputs stopping before its last entry: the variant
\* C11 is tested against.
RECURSIVE aggregate_but_last(_, _, _)
aggregate_but_last(outs, probabilities, acts) ==
    IF Len(outs) <= 1 THEN acts
    ELSE LET o == Head(outs)
             key == uci(o[1])
             val == probabilities[<< o[2], o[3], o[4] >>]
         IN  aggregate_but_last(Tail(outs), probabilities,
                       [k \in DOMAIN acts \cup {key} |->
                            IF k = key THEN val ELSE acts[k]])

\* The loop of probabilities_to_actions over self.outputs: each entry
\* (move, plane_index, row, col) sets actions[move.uci()].
RECURSIVE aggregate(_, _, _)
aggregate(outs, probabilities, acts) ==
    IF outs = << >> THEN acts
    ELSE LET o == Head(outs)
             key == uci(o[1])
             val == probabilities[<< o[2], o[3], o[4] >>]
         IN  aggregate(Tail(outs), probabilities,
                       [k \in DOMAIN acts \cup {key} |->
                            IF k = key THEN val ELSE acts[k]])

\* Node.add_child(child, action, prior) on parent: a new Edge to a new Node.
add_child(h, parent, state, action, prior) ==
    LET child == Len(h.nodes) + 1
        e == Len(h.edges) + 1
    IN  [nodes |-> [Append(h.nodes, Node(state))
                        EXCEPT ![parent].edges = Append(@, e)],
         edges |-> Append(h.edges, Edge(parent, child, action, prior)),
         err |-> h.err]

\* The loop of expand with one Node made before the loop and given to every
\* add_child: the variant C16 is tested against.
add_children_one_node(h, parent, moves, acts, i) ==
    IF moves = << >> THEN h
    ELSE LET child == Len(h.nodes) + 1
             base == Len(h.edges)
             made == [k \in 1 .. Len(moves) |->
                         Edge(parent, child, moves[k], acts[uci(moves[k])])]
         IN  [nodes |-> [Append(h.nodes,
                                Node(step(h.nodes[parent].state, moves[1])))
                            EXCEPT ![parent].edges =
                                @ \o [k \in 1 .. Len(moves) |-> base + k]],
              edges |-> h.edges \o made,
              err |-> h.err]

\* The loop of expand over possible_actions, from the i-th on; a move the
\* dictionary has no entry for raises KeyError and ends the loop.
RECURSIVE add_children(_, _, _, _, _)
add_children(h, parent, moves, acts, i) ==
    IF i > Len(moves) THEN h
    ELSE IF uci(moves[i]) \notin DOMAIN acts THEN [h EXCEPT !.err = "KeyError"]
    ELSE add_children(
             add_child(h, parent, step(h.nodes[parent].state, moves[i]),
                       moves[i], acts[uci(moves[i])]),
             parent, moves, acts, i + 1)

\* ------------------------------------------------------------------- Init
\* Agent.__init__ gives each agent MCTS(self): a tree of one node for the
\* starting position, not stochastic.  Game.__init__ resets the board.  In
\* Init the memory holds the empty record that play_one_game appends before
\* the first move of a game.
Constructed ==
    /\ nodes = << Node(STARTING_FEN), Node(STARTING_FEN) >>
    /\ edges = << >>
    /\ trees = << MCTS(1, FALSE), MCTS(2, FALSE) >>
    /\ mcts = [a \in Agents |-> IF a = "white" THEN 1 ELSE 2]
    /\ board = STARTING_FEN
    /\ turn = turn_of(STARTING_FEN)
    /\ pc = "idle"
    /\ cur = "none"
    /\ simsLeft = 0
    /\ retTo = "none"
    /\ leaf = None
    /\ possible_actions = << >>
    /\ pv = << >>
    /\ threads = << >>
    /\ outputs = << >>
    /\ actions = << >>
    /\ joined = 0
    /\ pm = << >>
    /\ result = << >>
    /\ err = "none"
    /\ simCount = 0
    /\ treeCount = 0
    /\ pmCount = 0
    /\ leafSel = << 0, 0 >>
    /\ passed = << 0, 0 >>
    /\ writes = << >>

\* train_puzzles is not running.
NoPuzzles ==
    [puzzles |-> << >>, at |-> "none", counter |-> 0, solved |-> "unbound",
     log |-> << >>]

Init ==
    /\ Constructed
    /\ memory = << << >> >>
    /\ tp = NoPuzzles

\* The tree the running call searches.
tree == trees[mcts[cur]]

\* -------------------------------------------------------- run_simulations
\* agent.mcts = MCTS(agent, state, stochastic), by a caller of the library
\* before it starts to search.
NewMCTS(a, state, stochastic) ==
    /\ pc = "idle"
    /\ simCount = 0
    /\ treeCount < MaxTrees
    /\ treeCount' = treeCount + 1
    /\ nodes' = Append(nodes, Node(state))
    /\ leafSel' = Append(leafSel, 0)
    /\ passed' = Append(passed, 0)
    /\ trees' = Append(trees, MCTS(Len(nodes) + 1, stochastic))
    /\ mcts' = [mcts EXCEPT ![a] = Len(trees) + 1]
    /\ err' = "none"
    /\ UNCHANGED << edges, gameVars, pc, simVars, expVars, pm, result,
                    simCount, pmCount, writes, tp >>

\* Agent.run_simulations(n) -> MCTS.run_simulations(n): enter the loop.
\* The calls together ask for at most budget simulations.
run_simulations(a, n, budget) ==
    /\ pc = "idle"
    /\ simCount + n <= budget
    /\ simCount' = simCount + n
    /\ pc' = "loop"
    /\ cur' = a
    /\ simsLeft' = n
    /\ retTo' = "caller"
    /\ err' = "none"
    /\ UNCHANGED << heapVars, gameVars, leaf, expVars, pm, result,
                    treeCount, pmCount, histVars, tp >>

\* run_simulations without "leaf.N += 1": the variant C3 is tested against.
visit_leaf_skipped(ns, l) == ns

\* leaf.N += 1
visit_leaf(ns, l) == [ns EXCEPT ![l].N = @ + 1]

\* One iteration up to the call of expand: empty game_path, select the
\* leaf, count the visit of the leaf.
SimSelect ==
    /\ pc = "loop"
    /\ simsLeft > 0
    /\ \E z \in noise_samples(tree) :
        LET sel == select_child(tree, tree.root, z, << >>)
            through == { edges[sel.game_path[i]].input_node :
                             i \in DOMAIN sel.game_path }
        IN  /\ trees' = [trees EXCEPT ![mcts[cur]].game_path = sel.game_path]
            /\ leaf' = sel.leaf
            /\ nodes' = visit_leaf(nodes, sel.leaf)
            /\ leafSel' = [leafSel EXCEPT ![sel.leaf] = @ + 1]
            /\ passed' = [n \in DOMAIN passed |->
                              IF n \in through THEN passed[n] + 1 ELSE passed[n]]
    /\ pc' = "expand"
    /\ UNCHANGED << edges, mcts, gameVars, cur, simsLeft, retTo, expVars,
                    callVars, capVars, writes, tp >>

\* The loop is over: return to the caller.
SimReturn ==
    /\ pc = "loop"
    /\ simsLeft = 0
    /\ pc' = IF retTo = "caller" THEN "idle" ELSE retTo
    /\ cur' = IF retTo = "caller" THEN "none" ELSE cur
    /\ retTo' = "none"
    /\ UNCHANGED << heapVars, gameVars, simsLeft, leaf, expVars, callVars,
                    capVars, histVars, tp >>

\* expand on a position without legal moves: the value of the outcome, no
\* edge, no call of the evaluator.
ExpandTerminal ==
    /\ pc = "expand"
    /\ generate_legal_moves(nodes[leaf].state) = << >>
    /\ nodes' = [nodes EXCEPT ![leaf].value = terminal_value(nodes[leaf].state)]
    /\ pc' = "backprop"
    /\ UNCHANGED << edges, trees, mcts, gameVars, simVars, expVars, callVars,
                    capVars, histVars, tp >>

\* expand on a position with legal moves, up to the first thread of
\* probabilities_to_actions: ask the evaluator, empty self.outputs.
ExpandPredict ==
    /\ pc = "expand"
    /\ generate_legal_moves(nodes[leaf].state) # << >>
    /\ possible_actions' = generate_legal_moves(nodes[leaf].state)
    /\ \E a \in predict : pv' = a
    /\ threads' = << >>
    /\ outputs' = << >>
    /\ writes' = << >>
    /\ actions' = << >>
    /\ joined' = 0
    /\ pc' = "spawn"
    /\ UNCHANGED << heapVars, gameVars, simVars, callVars, capVars,
                    leafSel, passed, tp >>

\* The next legal move gets a thread, which is started.
SpawnThread ==
    /\ pc = "spawn"
    /\ Len(threads) < Len(possible_actions)
    /\ threads' = Append(threads,
                         [move |-> possible_actions[Len(threads) + 1],
                          st |-> "running"])
    /\ UNCHANGED << heapVars, gameVars, pc, simVars, possible_actions, pv,
                    outputs, actions, joined, callVars, capVars, histVars,
                    tp >>

\* StopIteration: every legal move has its thread.
SpawnDone ==
    /\ pc = "spawn"
    /\ Len(threads) = Len(possible_actions)
    /\ pc' = "join"
    /\ UNCHANGED << heapVars, gameVars, simVars, expVars, callVars, capVars,
                    histVars, tp >>

\* The lock a thread holds while it appends to self.outputs: the code takes
\* none.
lock_held(i) == FALSE

\* MCTS.map_valid_move in thread i: append (move, plane_index, row, col) to
\* self.outputs, and end.
map_valid_move(i) ==
    /\ i \in DOMAIN threads
    /\ threads[i].st = "running"
    /\ LET move == threads[i].move
           c == cell_of(move)
       IN  outputs' = Append(outputs, << move, c[1], c[2], c[3] >>)
    /\ writes' = Append(writes,
                        [by |-> i, locked |-> lock_held(i),
                         alive |-> { j \in DOMAIN threads :
                                       j # i /\ threads[j].st = "running" }])
    /\ threads' = [threads EXCEPT ![i].st = "done"]
    /\ UNCHANGED << heapVars, gameVars, pc, simVars, possible_actions, pv,
                    actions, joined, callVars, capVars, leafSel, passed, tp >>

\* A join that does not wait for its thread to end: the variant C10 is
\* tested against.
JoinThread_no_wait ==
    /\ pc = "join"
    /\ joined < Len(threads)
    /\ joined' = joined + 1
    /\ UNCHANGED << heapVars, gameVars, pc, simVars, possible_actions, pv,
                    threads, outputs, actions, callVars, capVars, histVars,
                    tp >>

\* thread.join() for the next thread of the list: blocks until it has ended.
JoinThread ==
    /\ pc = "join"
    /\ joined < Len(threads)
    /\ threads[joined + 1].st = "done"
    /\ joined' = joined + 1
    /\ UNCHANGED << heapVars, gameVars, pc, simVars, possible_actions, pv,
                    threads, outputs, actions, callVars, capVars, histVars,
                    tp >>

\* Every thread is joined: build the dictionary from self.outputs.
Aggregate ==
    /\ pc = "join"
    /\ joined = Len(threads)
    /\ actions' = aggregate(outputs, pv.p, << >>)
    /\ pc' = "children"
    /\ UNCHANGED << heapVars, gameVars, simVars, possible_actions, pv, threads,
                    outputs, joined, callVars, capVars, histVars, tp >>

\* Children made in the order of self.outputs, the order in which the
\* threads ended: the variant C4 is tested against.
children_order_of_outputs(moves, outs) == [i \in DOMAIN outs |-> outs[i][1]]

\* The moves the loop of expand makes children for, in its order: the
\* list possible_actions, whatever the order of self.outputs (outs).
children_order(moves, outs) == moves

\* The rest of expand: leaf.value, one child per legal move.  A KeyError
\* leaves run_simulations and its callers.
AddChildren ==
    /\ pc = "children"
    /\ LET h == add_children(
                    [nodes |-> [nodes EXCEPT ![leaf].value = pv.v],
                     edges |-> edges, err |-> "none"],
                    leaf, children_order(possible_actions, outputs),
                    actions, 1)
           grown == Len(h.nodes) - Len(nodes)
       IN  /\ nodes' = h.nodes
           /\ edges' = h.edges
           /\ leafSel' = leafSel \o [i \in 1 .. grown |-> 0]
           /\ passed' = passed \o [i \in 1 .. grown |-> 0]
           /\ IF h.err = "none"
              THEN /\ pc' = "backprop"
                   /\ UNCHANGED << simVars, pm, err >>
              ELSE /\ pc' = "idle"
                   /\ simsLeft' = 0
                   /\ cur' = "none"
                   /\ retTo' = "none"
                   /\ leaf' = None
                   /\ pm' = << >>
                   /\ err' = h.err
    /\ possible_actions' = << >>
    /\ pv' = << >>
    /\ threads' = << >>
    /\ actions' = << >>
    /\ joined' = 0
    /\ UNCHANGED << trees, mcts, gameVars, outputs, result, capVars, writes,
                    tp >>

\* backpropagate(leaf, leaf.value), the end of the iteration.  self.outputs
\* is not read again before probabilities_to_actions empties it: it is
\* emptied here.
Backprop ==
    /\ pc = "backprop"
    /\ LET h == backpropagate(nodes, edges, tree.game_path, nodes[leaf].value)
       IN  /\ nodes' = h.nodes
           /\ edges' = h.edges
    /\ simsLeft' = simsLeft - 1
    /\ leaf' = None
    /\ outputs' = << >>
    /\ writes' = << >>
    /\ pc' = "loop"
    /\ UNCHANGED << trees, mcts, gameVars, cur, retTo, possible_actions, pv,
                    threads, actions, joined, callVars, capVars, leafSel,
                    passed, tp >>

\* -------------------------------------------------------------- play_move
\* tree_for_move never re-using the tree, a new one made for every move:
\* the variant C18 is tested against.
tree_for_move_never_reused(t, previous_moves) ==
    [kind |-> "new", root |-> t.root]

\* tree_for_move finding the node two edges below and leaving the root
\* where it is: the variant C19 is tested against.
tree_for_move_root_kept(t, previous_moves) ==
    IF previous_moves[1] = None \/ previous_moves[2] = None
    THEN [kind |-> "new", root |-> t.root]
    ELSE LET e1 == get_edge(t.root, edges[previous_moves[1]].action)
             e2 == IF e1 = None THEN None
                   ELSE get_edge(edges[e1].output_node,
                                 edges[previous_moves[2]].action)
         IN  IF e2 = None THEN [kind |-> "except", root |-> t.root]
             ELSE [kind |-> "reroot", root |-> t.root]

\* tree_for_move stopping one edge below the root: the variant C5 is tested
\* against.
tree_for_move_one_edge(t, previous_moves) ==
    IF previous_moves[1] = None \/ previous_moves[2] = None
    THEN [kind |-> "new", root |-> t.root]
    ELSE LET e1 == get_edge(t.root, edges[previous_moves[1]].action)
             e2 == IF e1 = None THEN None
                   ELSE get_edge(edges[e1].output_node,
                                 edges[previous_moves[2]].action)
         IN  IF e2 = None THEN [kind |-> "except", root |-> t.root]
             ELSE [kind |-> "reroot", root |-> edges[e1].output_node]

\* tree_for_move without the except clause, the AttributeError leaving
\* play_move: the variant C6 is tested against.
tree_for_move_no_except(t, previous_moves) ==
    IF previous_moves[1] = None \/ previous_moves[2] = None
    THEN [kind |-> "new", root |-> t.root]
    ELSE LET e1 == get_edge(t.root, edges[previous_moves[1]].action)
             e2 == IF e1 = None THEN None
                   ELSE get_edge(edges[e1].output_node,
                                 edges[previous_moves[2]].action)
         IN  IF e2 = None THEN [kind |-> "AttributeError", root |-> t.root]
             ELSE [kind |-> "reroot", root |-> edges[e2].output_node]

\* The branch play_move takes to get the tree it searches.  Without two
\* previous moves: "new", a new tree.  With them: "reroot" to the node two
\* edges below the root, by the actions of the two previous moves; a lookup
\* that finds no edge gives None, whose output_node raises AttributeError,
\* which is caught: "except", a new tree.
tree_for_move(t, previous_moves) ==
    IF previous_moves[1] = None \/ previous_moves[2] = None
    THEN [kind |-> "new", root |-> t.root]
    ELSE LET e1 == get_edge(t.root, edges[previous_moves[1]].action)
             e2 == IF e1 = None THEN None
                   ELSE get_edge(edges[e1].output_node,
                                 edges[previous_moves[2]].action)
         IN  IF e2 = None THEN [kind |-> "except", root |-> t.root]
             ELSE [kind |-> "reroot", root |-> edges[e2].output_node]

\* play_move handing its stochastic argument on to the tree it makes: the
\* variant C23 is tested against.
play_move_tree_as_asked(root, stochastic) == MCTS(root, stochastic)

\* "MCTS(current_player, state=self.env.board.fen())" in play_move, whose
\* argument stochastic is not passed on: the constructor's default, False.
play_move_tree(root, stochastic) == MCTS(root, FALSE)

\* Game.play_move(stochastic, previous_moves) up to the call of
\* run_simulations, which returns to ret.
play_move_call(stochastic, previous_moves, ret) ==
    LET current_player == IF turn = WHITE THEN "white" ELSE "black"
        t == mcts[current_player]
        branch == tree_for_move(trees[t], previous_moves)
    IN  /\ pm' = [stochastic |-> stochastic,
                  previous_move |-> previous_moves[2],
                  branch |-> branch.kind]
        /\ trees' = IF branch.kind \in {"new", "except"}
                    THEN Append([trees EXCEPT ![t].root = branch.root],
                                play_move_tree(Len(nodes) + 1, stochastic))
                    ELSE [trees EXCEPT ![t].root = branch.root]
        /\ IF branch.kind \in {"new", "except"}
           THEN /\ nodes' = Append(nodes, Node(board))
                /\ leafSel' = Append(leafSel, 0)
                /\ passed' = Append(passed, 0)
                /\ mcts' = [mcts EXCEPT ![current_player] = Len(trees) + 1]
           ELSE UNCHANGED << nodes, leafSel, passed, mcts >>
        /\ IF branch.kind \in {"new", "except", "reroot"}
           THEN /\ pc' = "loop"
                /\ cur' = current_player
                /\ simsLeft' = SIMULATIONS_PER_MOVE
                /\ retTo' = ret
                /\ err' = "none"
           ELSE /\ pc' = "idle"
                /\ cur' = "none"
                /\ simsLeft' = 0
                /\ retTo' = "none"
                /\ err' = branch.kind
        /\ UNCHANGED << edges, gameVars, leaf, expVars, result, writes >>

\* The Edge objects a caller passes as previous moves: for each move the
\* first Edge made for it, or None.
PreviousMoves ==
    LET first == { e \in DOMAIN edges :
                     \A f \in DOMAIN edges :
                         edges[f].action = edges[e].action => e <= f }
    IN  (first \cup {None}) \X (first \cup {None})

\* A direct call of play_move.
play_move(stochastic, previous_moves) ==
    /\ pc = "idle"
    /\ pmCount < MaxPlayMoves
    /\ pmCount' = pmCount + 1
    /\ simCount + SIMULATIONS_PER_MOVE <= MaxSims
    /\ simCount' = simCount + SIMULATIONS_PER_MOVE
    /\ play_move_call(stochastic, previous_moves, "play_move")
    /\ UNCHANGED << treeCount, tp >>

\* The dictionary of save_to_memory: e.action.uci() -> e.N / sum_move_visits.
RECURSIVE search_probabilities(_, _, _)
search_probabilities(moves, sum_move_visits, d) ==
    IF moves = << >> THEN d
    ELSE LET key == uci(edges[Head(moves)].action)
             val == << edges[Head(moves)].N, sum_move_visits >>
         IN  search_probabilities(Tail(moves), sum_move_visits,
                 [k \in DOMAIN d \cup {key} |-> IF k = key THEN val ELSE d[k]])

\* The edges play_move may play: drawn with probability e.N / sum when the
\* move is chosen at random, else the first edge with the highest N.
best_moves(moves, at_random) ==
    IF at_random
    THEN { moves[i] : i \in { j \in DOMAIN moves : edges[moves[j]].N > 0 } }
    ELSE { moves[i] : i \in { j \in DOMAIN moves :
               /\ \A k \in DOMAIN moves : edges[moves[k]].N <= edges[moves[j]].N
               /\ \A k \in 1 .. j - 1 : edges[moves[k]].N < edges[moves[j]].N } }

\* The exception the rest of play_move raises, if any: the division by
\* sum_move_visits in save_to_memory, or the choice among no moves.
play_move_error(moves) ==
    IF moves # << >> /\ sum_N(edges, moves) = 0 THEN "ZeroDivisionError"
    ELSE IF moves = << >> THEN "ValueError"
    ELSE "none"

\* Game.play_move after run_simulations: save to memory, choose the move,
\* play it, switch the turn, return (previous_moves[1], best_move).
PlayMoveFinish ==
    /\ pc = "play_move"
    /\ LET moves == nodes[tree.root].edges
           sum_move_visits == sum_N(edges, moves)
           entry == [state |-> board,
                     search_probabilities |->
                         search_probabilities(moves, sum_move_visits, << >>),
                     winner |-> NoWinner]
           saved == [memory EXCEPT ![Len(memory)] = Append(@, entry)]
       IN  CASE play_move_error(moves) = "ZeroDivisionError" ->
                  /\ err' = "ZeroDivisionError"
                  /\ UNCHANGED << gameVars, result >>
             [] play_move_error(moves) = "ValueError" ->
                  /\ err' = "ValueError"
                  /\ memory' = saved
                  /\ UNCHANGED << board, turn, result >>
             [] OTHER ->
                  \E at_random \in { pm.stochastic, FALSE } :
                  \E best_move \in best_moves(moves, at_random) :
                      /\ memory' = saved
                      /\ board' = step(board, edges[best_move].action)
                      /\ turn' = IF turn = WHITE THEN BLACK ELSE WHITE
                      /\ result' = << pm.previous_move, best_move >>
                      /\ err' = "none"
    /\ pc' = "idle"
    /\ cur' = "none"
    /\ pm' = << >>
    /\ UNCHANGED << heapVars, simsLeft, retTo, leaf, expVars, capVars, histVars,
                    tp >>

\* ---------------------------------------------------------- specifications
\* The steps of one iteration after select_child: expand with its threads,
\* and backpropagate.
Expansion ==
    \/ ExpandTerminal
    \/ ExpandPredict
    \/ SpawnThread
    \/ SpawnDone
    \/ \E i \in DOMAIN threads : map_valid_move(i)
    \/ JoinThread
    \/ Aggregate
    \/ AddChildren
    \/ Backprop

\* The steps of one call of run_simulations.
Simulation ==
    \/ SimSelect
    \/ SimReturn
    \/ Expansion

\* Any calls of the library: trees constructed, simulations run, moves
\* played, in any order within the bounds.
Next ==
    \/ \E a \in Callers, s \in TreeStates, st \in BOOLEAN : NewMCTS(a, s, st)
    \/ \E a \in Callers, n \in 1 .. MaxSims : run_simulations(a, n, MaxSims)
    \/ Simulation
    \/ \E st \in BOOLEAN, pmv \in PreviousMoves : play_move(st, pmv)
    \/ PlayMoveFinish

Spec == Init /\ [][Next]_vars

\* One call run_simulations(10) on the tree an agent is constructed with.
NextTen ==
    \/ run_simulations("white", 10, 10)
    \/ Simulation

SpecTen == Init /\ [][NextTen]_vars

\* The same calls, with a started expansion never left waiting for ever:
\* the main thread and the threads it started keep being scheduled.
SpecLive == Spec /\ WF_vars(Expansion)

\* A search of ReuseSims simulations on the tree white is constructed with,
\* then one call of play_move with any previous moves.
ReuseSims == 3

play_move_after_search(stochastic, previous_moves) ==
    /\ pc = "idle"
    /\ simCount = ReuseSims
    /\ pmCount < MaxPlayMoves
    /\ pmCount' = pmCount + 1
    /\ simCount' = simCount + SIMULATIONS_PER_MOVE
    /\ play_move_call(stochastic, previous_moves, "play_move")
    /\ UNCHANGED << treeCount, tp >>

NextReuse ==
    \/ run_simulations("white", ReuseSims, ReuseSims)
    \/ Simulation
    \/ \E st \in BOOLEAN, pmv \in PreviousMoves : play_move_after_search(st, pmv)
    \/ PlayMoveFinish

SpecReuse == Init /\ [][NextReuse]_vars

\* config.MAX_GAME_MOVES: the number of moves after which play_one_game
\* stops a game that is still going on when the next one has been played.
MAX_GAME_MOVES == 2

\* previous_edges of play_one_game: (None, None) before the first move, then
\* what the last call of play_move returned.
previous_edges == IF pmCount = 0 THEN << None, None >> ELSE result

\* The limit check with one more move allowed: the variant C21 is tested
\* against.
move_limit_passed_late(counter) == counter > MAX_GAME_MOVES + 1

\* "if counter > config.MAX_GAME_MOVES", after the counter was incremented.
move_limit_passed(counter) == counter > MAX_GAME_MOVES

\* One pass of the loop of Game.play_one_game(stochastic=True) up to the
\* simulations of play_move: the game is not over, no earlier call raised,
\* and the counter (pmCount) has not passed the limit.  The game starts in
\* the initial state: reset() done, a new memory entry appended.
play_one_game_move ==
    /\ pc = "idle"
    /\ err = "none"
    /\ ~is_game_over(board)
    /\ ~move_limit_passed(pmCount)
    /\ pmCount' = pmCount + 1
    /\ simCount' = simCount + SIMULATIONS_PER_MOVE
    /\ play_move_call(TRUE, previous_edges, "play_move")
    /\ UNCHANGED << treeCount, tp >>

NextGame ==
    \/ play_one_game_move
    \/ Simulation
    \/ PlayMoveFinish

SpecGame == Init /\ [][NextGame]_vars

\* board.result(): "*" while the game is not over.
board_result(s) ==
    IF outcome(s).none THEN "*"
    ELSE IF outcome(s).winner = WHITE THEN "1-0"
    ELSE IF outcome(s).winner = BLACK THEN "0-1"
    ELSE "1/2-1/2"

\* Game.get_winner(result).  A winner is a number written as a string, so
\* that it can stand in the memory field that holds None until the game is
\* labelled.
get_winner(res) ==
    IF res = "1-0" THEN "1" ELSE IF res = "0-1" THEN "-1" ELSE "0"

\* What ChessEnv.estimate_winner(board) may return: a number for white
\* ahead, for black ahead, or for neither.
EstimatedWinners == { "1", "-1", "0" }

\* "self.memory[-1][index] = (element[0], element[1], winner)" for every
\* entry of the last game.
label_memory(mem, winner) ==
    [mem EXCEPT ![Len(mem)] =
        [i \in DOMAIN @ |-> [@[i] EXCEPT !.winner = winner]]]

\* Game.play_one_game after its loop, left by the break of the limit check
\* (tested right after play_move, before the loop condition) or by the loop
\* condition: the winner is estimated or read from the board, the memory of
\* the game is labelled with it, save_game is given full_game, and the
\* winner is returned.  move_stack[0] raises IndexError if no move was made.
play_one_game_return ==
    /\ pc = "idle"
    /\ err = "none"
    /\ move_limit_passed(pmCount) \/ is_game_over(board)
    /\ \E estimate \in EstimatedWinners :
        LET full_game == ~move_limit_passed(pmCount)
            winner == IF full_game THEN get_winner(board_result(board))
                      ELSE estimate
        IN  /\ memory' = label_memory(memory, winner)
            /\ IF board = STARTING_FEN
               THEN /\ err' = "IndexError"
                    /\ UNCHANGED result
               ELSE /\ err' = "none"
                    /\ result' = [winner |-> winner,
                                  full_game |-> full_game,
                                  winner_from |->
                                      IF full_game THEN "board.result"
                                      ELSE "estimate_winner"]
    /\ pc' = "returned"
    /\ UNCHANGED << heapVars, board, turn, simVars, expVars, pm, capVars,
                    histVars, tp >>

\* One game played by play_one_game, from its reset to its return.
NextOneGame ==
    \/ play_one_game_move
    \/ Simulation
    \/ PlayMoveFinish
    \/ play_one_game_return

SpecOneGame == Init /\ [][NextOneGame]_vars

\* The same game with the program kept running: while a step of the game
\* is possible, one is taken.
SpecOneGameLive == SpecOneGame /\ WF_vars(NextOneGame)

\* config.MAX_PUZZLE_MOVES: the number of moves after which train_puzzles
\* gives a puzzle up when the next one has been played.
MAX_PUZZLE_MOVES == 1

\* Puzzles in a puzzle set, at most.
MaxPuzzles == 2

\* The rows a puzzle set is made of: the position (fen) and the moves, of
\* which the first is played before the search has to find the rest.
Puzzles ==
    { [fen |-> STARTING_FEN, moves |-> << 2, 2 >>],
      [fen |-> STARTING_FEN, moves |-> << 1, 2, 3 >>] }

PuzzleSets ==
    UNION { [1 .. n -> Puzzles] : n \in 1 .. MaxPuzzles }

\* Game(env, white, black).train_puzzles(puzzles) entered: nothing in the
\* memory yet, the local solved not assigned.
InitPuzzles ==
    /\ Constructed
    /\ memory = << >>
    /\ \E puzzles \in PuzzleSets :
           tp = [puzzles |-> puzzles, at |-> "for", counter |-> 0,
                 solved |-> "unbound", log |-> << >>]

\* "if counter > config.MAX_PUZZLE_MOVES", after the counter was incremented.
puzzle_limit_passed(counter) == counter > MAX_PUZZLE_MOVES

\* The for loop takes the next puzzle: the board is set to its position and
\* its first move is pushed, a new memory entry is appended, counter and
\* previous_edges start again.  Game.turn is left as it is.
train_puzzles_puzzle ==
    /\ pc = "idle"
    /\ err = "none"
    /\ tp.at = "for"
    /\ tp.puzzles # << >>
    /\ LET puzzle == Head(tp.puzzles)
       IN  board' = step(puzzle.fen, Head(puzzle.moves))
    /\ memory' = Append(memory, << >>)
    /\ tp' = [tp EXCEPT !.puzzles = Tail(@), !.at = "while", !.counter = 0]
    /\ UNCHANGED << heapVars, turn, pc, simVars, expVars, callVars, capVars,
                    histVars >>

\* One pass of the while loop up to the simulations of play_move, called
\* with stochastic=False and (None, None) or what the last call returned.
train_puzzles_move ==
    /\ pc = "idle"
    /\ err = "none"
    /\ tp.at = "while"
    /\ ~is_game_over(board)
    /\ ~puzzle_limit_passed(tp.counter)
    /\ tp' = [tp EXCEPT !.counter = @ + 1]
    /\ pmCount' = pmCount + 1
    /\ simCount' = simCount + SIMULATIONS_PER_MOVE
    /\ play_move_call(FALSE,
                      IF tp.counter = 0 THEN << None, None >> ELSE result,
                      "play_move")
    /\ UNCHANGED treeCount

\* The while loop is left, by the break of the limit check, which assigns
\* solved = False, or by its condition, which assigns nothing.  Then
\* "if not solved: continue" reads solved: not assigned yet, it raises
\* UnboundLocalError; False, the puzzle is skipped; else the memory of the
\* puzzle is labelled with the winner of the board's result and saved.
train_puzzles_after_loop ==
    /\ pc = "idle"
    /\ err = "none"
    /\ tp.at = "while"
    /\ puzzle_limit_passed(tp.counter) \/ is_game_over(board)
    /\ LET exceeded == puzzle_limit_passed(tp.counter)
           solved == IF exceeded THEN "False" ELSE tp.solved
           entry(saved) == [game |-> Len(memory), exceeded |-> exceeded,
                            over |-> is_game_over(board), saved |-> saved]
       IN  CASE solved = "unbound" ->
                  /\ err' = "UnboundLocalError"
                  /\ tp' = [tp EXCEPT !.at = "raised"]
                  /\ UNCHANGED memory
             [] solved = "False" ->
                  /\ tp' = [tp EXCEPT !.at = "for", !.solved = solved,
                                      !.log = Append(@, entry(FALSE))]
                  /\ UNCHANGED << memory, err >>
             [] OTHER ->
                  /\ memory' = label_memory(memory,
                                            get_winner(board_result(board)))
                  /\ tp' = [tp EXCEPT !.at = "for",
                                      !.log = Append(@, entry(TRUE))]
                  /\ UNCHANGED err
    /\ UNCHANGED << heapVars, board, turn, pc, simVars, expVars, pm, result,
                    capVars, histVars >>

\* The for loop has no puzzle left: train_puzzles returns.
train_puzzles_return ==
    /\ pc = "idle"
    /\ err = "none"
    /\ tp.at = "for"
    /\ tp.puzzles = << >>
    /\ pc' = "returned"
    /\ tp' = [tp EXCEPT !.at = "done"]
    /\ UNCHANGED << heapVars, gameVars, simVars, expVars, callVars, capVars,
                    histVars >>

\* One call of train_puzzles on a puzzle set.
NextPuzzles ==
    \/ train_puzzles_puzzle
    \/ train_puzzles_move
    \/ Simulation
    \/ PlayMoveFinish
    \/ train_puzzles_after_loop
    \/ train_puzzles_return

SpecPuzzles == InitPuzzles /\ [][NextPuzzles]_vars

\* ------------------------------------------------------------------ claims
\* The running call is between two simulations, or no call is running.
BetweenSimulations == pc \in {"idle", "loop", "play_move"}

\* The roots of the agents' trees.
Roots == { trees[mcts[a]].root : a \in Agents }

\* The node is the output_node of an edge: it was made by expand, and it is
\* a root only by re-rooting.
HasParent(n) == \E e \in DOMAIN edges : edges[e].output_node = n

\* C1: visit-count conservation.  Every node with at least one outgoing
\* edge has sum(edge.N for edge in node.edges) = node.N - 1, in every state,
\* also after play_move has re-rooted the tree to a descendant.
C1_VisitConservation ==
    \A n \in DOMAIN nodes :
        nodes[n].edges # << >> =>
            sum_N(edges, nodes[n].edges) = nodes[n].N - 1

\* C1 witness: a tree re-rooted to a descendant has been searched again
\* and its root has edges with visits.
C1_Witness ==
    /\ pc = "idle"
    /\ \E r \in Roots :
        /\ HasParent(r)
        /\ nodes[r].edges # << >>
        /\ nodes[r].N >= 2

\* Simulations the running call of run_simulations has completed.
Completed == simCount - simsLeft

\* C2 as stated: on the tree of the starting position, not stochastic, the
\* visit counts of the root's edges sum to 10 after run_simulations(10).
C2_AsStated ==
    (pc = "idle" /\ simCount = 10) =>
        sum_N(edges, nodes[trees[mcts["white"]].root].edges) = 10

\* C2 amended: between the simulations of run_simulations(10) on the tree
\* of the starting position, not stochastic, the visit counts of the root's
\* edges sum to the number of completed simulations minus one (the first
\* simulation expands the root and traverses no edge): 9 after the call.
C2_RootEdgeVisits ==
    (BetweenSimulations /\ Completed >= 1) =>
        sum_N(edges, nodes[trees[mcts["white"]].root].edges) = Completed - 1

\* C2 witness: run_simulations(10) has returned and the root has one edge
\* for each of the two opening moves.
C2_Witness ==
    /\ pc = "idle"
    /\ simCount = 10
    /\ Len(nodes[trees[mcts["white"]].root].edges) = 2
    /\ sum_N(edges, nodes[trees[mcts["white"]].root].edges) = 9

\* C3 as stated: between simulations, root.N is the number of simulations
\* that descended through the root (as a non-leaf step).
C3_AsStated ==
    BetweenSimulations => \A r \in Roots : nodes[r].N = passed[r]

\* C3 amended: between simulations, root.N is the number of simulations
\* whose selection path included the root, as a non-leaf step or as the
\* selected leaf; the same holds of every node.
C3_RootVisits ==
    BetweenSimulations =>
        \A n \in DOMAIN nodes : nodes[n].N = passed[n] + leafSel[n]

\* C3 witness: a root was the selected leaf once and was descended through
\* after that.
C3_Witness ==
    /\ BetweenSimulations
    /\ \E r \in Roots : leafSel[r] = 1 /\ passed[r] >= 2

\* expand has returned for the node: it was selected as a leaf and the
\* running simulation is not still expanding it.
Expanded(n) ==
    /\ leafSel[n] >= 1
    /\ ~(n = leaf /\ pc \in {"expand", "spawn", "join", "children"})

\* The actions of the node's edges, in the order of node.edges.
EdgeActions(n) ==
    [i \in DOMAIN nodes[n].edges |-> edges[nodes[n].edges[i]].action]

\* C4: once expand has returned for a node, the actions of its edges are
\* the legal moves of its position in the order of the enumeration, one edge
\* per move and no action twice, in every later state and whatever the order
\* in which the threads appended to self.outputs; a node not yet expanded
\* has no edge; right after expand every edge of the leaf has N = 0, W = 0.
C4_EdgesAreLegalMoves ==
    /\ \A n \in DOMAIN nodes :
        IF Expanded(n)
        THEN /\ EdgeActions(n) = generate_legal_moves(nodes[n].state)
             /\ \A i, j \in DOMAIN nodes[n].edges :
                    i # j => EdgeActions(n)[i] # EdgeActions(n)[j]
        ELSE nodes[n].edges = << >>
    /\ pc = "backprop" =>
        \A i \in DOMAIN nodes[leaf].edges :
            /\ edges[nodes[leaf].edges[i]].N = 0
            /\ edges[nodes[leaf].edges[i]].W = 0

\* C4 witness: expand has just made three children although the threads
\* appended to self.outputs in another order than the enumeration.
C4_Witness ==
    /\ pc = "backprop"
    /\ Len(nodes[leaf].edges) = 3
    /\ Len(outputs) = 3
    /\ outputs[1][1] # generate_legal_moves(nodes[leaf].state)[1]

\* The edges of node n whose action is a.
EdgesFor(n, a) ==
    { nodes[n].edges[i] : i \in { j \in DOMAIN nodes[n].edges :
                                     edges[nodes[n].edges[j]].action = a } }

\* The node two edges below root, along the action of previous_moves[1] and
\* then the action of previous_moves[2]; None when a move or an edge lacks.
TwoBelow(root, previous_moves) ==
    IF previous_moves[1] = None \/ previous_moves[2] = None THEN None
    ELSE LET s1 == EdgesFor(root, edges[previous_moves[1]].action)
         IN  IF s1 = {} THEN None
             ELSE LET n1 == edges[CHOOSE e \in s1 : TRUE].output_node
                      s2 == EdgesFor(n1, edges[previous_moves[2]].action)
                  IN  IF s2 = {} THEN None
                      ELSE edges[CHOOSE e \in s2 : TRUE].output_node

\* The agent whose turn it is.
CurrentPlayer == IF turn = WHITE THEN "white" ELSE "black"

\* C5: a call of play_move with both previous moves given and both edges
\* found keeps the current player's tree object and makes its root the node
\* that was already there two edges below the old root (no node is made);
\* in every other call the root of that tree object stays as it was, and no
\* step other than a call of play_move changes the root of any tree.
C5_ReRooting ==
    /\ [][\A stochastic \in BOOLEAN : \A previous_moves \in PreviousMoves :
            play_move(stochastic, previous_moves) =>
                LET t == mcts[CurrentPlayer]
                    target == TwoBelow(trees[t].root, previous_moves)
                IN  IF target # None
                    THEN /\ mcts'[CurrentPlayer] = t
                         /\ trees'[t].root = target
                         /\ target \in DOMAIN nodes
                         /\ nodes' = nodes
                         /\ Len(trees') = Len(trees)
                    ELSE trees'[t].root = trees[t].root]_vars
    /\ [][\A t \in DOMAIN trees :
            trees'[t].root # trees[t].root => pmCount' = pmCount + 1]_vars

\* C5 witness: play_move has just re-rooted the tree two edges down, at a
\* node that has a parent, and its simulations are about to start.
C5_Witness ==
    /\ pc = "loop"
    /\ retTo = "play_move"
    /\ simsLeft = SIMULATIONS_PER_MOVE
    /\ pm.branch = "reroot"
    /\ HasParent(tree.root)
    /\ Len(nodes[tree.root].state) = 2

\* Both previous moves are given and one of the two lookups finds no edge.
LookupFails(root, previous_moves) ==
    /\ previous_moves[1] # None
    /\ previous_moves[2] # None
    /\ TwoBelow(root, previous_moves) = None

\* C6: a call of play_move in which a lookup finds no edge raises nothing:
\* the player gets a new tree whose root is a new node with N = 0, no edges
\* and the position of the board, and run_simulations is entered on that
\* tree; when its simulations are done the new root has been visited by each
\* of them and no error has left play_move.
C6_Fallback ==
    /\ [][\A stochastic \in BOOLEAN : \A previous_moves \in PreviousMoves :
            (/\ play_move(stochastic, previous_moves)
             /\ LookupFails(trees[mcts[CurrentPlayer]].root, previous_moves))
            =>  LET t == mcts'[CurrentPlayer]
                IN  /\ err' = "none"
                    /\ t \notin DOMAIN trees
                    /\ t \in DOMAIN trees'
                    /\ trees'[t].root \notin DOMAIN nodes
                    /\ nodes'[trees'[t].root].N = 0
                    /\ nodes'[trees'[t].root].edges = << >>
                    /\ nodes'[trees'[t].root].state = board
                    /\ pc' = "loop"
                    /\ cur' = CurrentPlayer
                    /\ simsLeft' = SIMULATIONS_PER_MOVE]_vars
    /\ []((pc = "play_move" /\ pm.branch = "except") =>
            /\ err = "none"
            /\ nodes[tree.root].N = SIMULATIONS_PER_MOVE
            /\ leafSel[tree.root] = 1)

\* C6 witness: the simulations of a play_move that fell back to a new tree
\* are done, and the new root has its edges.
C6_Witness ==
    /\ pc = "play_move"
    /\ pm.branch = "except"
    /\ err = "none"
    /\ nodes[tree.root].edges # << >>
    /\ Len(trees) = 3

\* The expanded nodes with no legal move.
ExpandedTerminal ==
    { n \in DOMAIN nodes :
        Expanded(n) /\ generate_legal_moves(nodes[n].state) = << >> }

\* C7: an expanded node with no legal move and a winner has no edges, and
\* its value is 1 when White won and -1 when Black won; the evaluator is
\* asked only about positions that have legal moves.
C7_DecisiveTerminal ==
    /\ [](\A n \in ExpandedTerminal :
            LET o == outcome(nodes[n].state)
            IN  (~o.none /\ o.winner \in {WHITE, BLACK}) =>
                    /\ nodes[n].edges = << >>
                    /\ nodes[n].value = IF o.winner = WHITE THEN 1 ELSE -1)
    /\ [][(pc = "expand" /\ pc' = "spawn") =>
            generate_legal_moves(nodes[leaf].state) # << >>]_vars

\* C7 witness: a position White has won is expanded, with value 1.
C7_Witness ==
    \E n \in ExpandedTerminal :
        /\ outcome(nodes[n].state).winner = WHITE
        /\ nodes[n].value = 1
        /\ nodes[n].N >= 1

\* C8 as stated: an expanded node with no legal move whose outcome is a draw
\* or is not determined has value 0.
C8_DrawValueZero ==
    \A n \in ExpandedTerminal :
        LET o == outcome(nodes[n].state)
        IN  (o.none \/ o.winner = NoWinner) => nodes[n].value = 0

\* C9 as stated, in the case where it matters: a thread appends to
\* self.outputs under a lock, or when no other thread of the expansion is
\* still running.
C9_NoUnsynchronizedWrite ==
    \A w \in DOMAIN writes : writes[w].locked \/ writes[w].alive = {}

\* C10: in every interleaving, the step that builds the dictionary from
\* self.outputs and every step that makes a child (an Edge) are taken with
\* one thread per legal move of the leaf started and every one of them ended.
C10_JoinBeforeAggregation ==
    [][((pc = "join" /\ pc' = "children") \/ Len(edges') > Len(edges)) =>
          /\ Len(threads) = Len(generate_legal_moves(nodes[leaf].state))
          /\ \A i \in DOMAIN threads : threads[i].st = "done"]_vars

\* C10 witness: the dictionary is built for three threads, the last of
\* which to be started was the first to append.
C10_Witness ==
    /\ pc = "children"
    /\ Len(threads) = 3
    /\ Len(outputs) = 3
    /\ outputs[1][1] = threads[3].move
    /\ \A i \in DOMAIN threads : threads[i].st = "done"


\* C11: in every interleaving of the threads, the dictionary that
\* probabilities_to_actions returns has one key per legal move of the leaf's
\* position, the uci of that move, and no other key; the value of a move is
\* the entry of the evaluator's policy vector at the move's (plane, row, col)
\* cell, as the evaluator gave it.
C11_ActionsAreLegalMoves ==
    pc = "children" =>
        LET lm == generate_legal_moves(nodes[leaf].state)
        IN  /\ DOMAIN actions = { uci(lm[i]) : i \in DOMAIN lm }
            /\ Cardinality(DOMAIN actions) = Len(lm)
            /\ \A i \in DOMAIN lm :
                   actions[uci(lm[i])] = pv.p[cell_of(lm[i])]

\* C11 witness: the dictionary of a position with three legal moves, built
\* from appends in another order than the enumeration; its values are those
\* of the knight policy, which sum to 3/4 over the three moves.
C11_Witness ==
    /\ pc = "children"
    /\ Len(possible_actions) = 3
    /\ outputs[1][1] # possible_actions[1]
    /\ pv.p = KnightPolicy
    /\ actions["g1f3"] = << 1, 2 >>
    /\ actions["e2e3"] = << 1, 8 >>
    /\ actions["e2e4"] = << 1, 8 >>


\* The nodes of the tree below n, n included.
RECURSIVE Subtree(_)
Subtree(n) ==
    {n} \cup UNION { Subtree(edges[nodes[n].edges[i]].output_node) :
                         i \in DOMAIN nodes[n].edges }

\* The number of edges from n down to m, a node of Subtree(n): each edge
\* adds one move to the position.
Below(n, m) == Len(nodes[m].state) - Len(nodes[n].state)

\* The depth of the tree below n.
Depth(n) ==
    CHOOSE d \in 0 .. MaxPly :
        /\ \E m \in Subtree(n) : Below(n, m) = d
        /\ \A m \in Subtree(n) : Below(n, m) <= d

\* The sequence of edges leads from node from to node to.
IsPath(path, from, to) ==
    /\ Len(path) = 0 => from = to
    /\ Len(path) > 0 =>
        /\ edges[path[1]].input_node = from
        /\ edges[path[Len(path)]].output_node = to
        /\ \A i \in 1 .. Len(path) - 1 :
               edges[path[i]].output_node = edges[path[i + 1]].input_node

\* C12: select_child ends at a node without edges, having descended along a
\* path from the root of at most as many edges as the tree is deep; and
\* every simulation that has selected its leaf goes on to its end, back in
\* the loop of run_simulations (or out of it by an exception of expand).
C12_SelectionTerminates ==
    /\ [](pc = "expand" =>
            /\ is_leaf(leaf)
            /\ leaf \in Subtree(tree.root)
            /\ IsPath(tree.game_path, tree.root, leaf)
            /\ Len(tree.game_path) <= Depth(tree.root))
    /\ (pc = "expand") ~> (pc = "loop" \/ err # "none")

\* C12 witness: select_child has descended three edges, as many as the tree
\* is deep, to a node without edges.
C12_Witness ==
    /\ pc = "expand"
    /\ Len(tree.game_path) = 3
    /\ Depth(tree.root) = 3
    /\ is_leaf(leaf)


\* The edges of a sequence of edges.
OnPath(path) == { path[i] : i \in DOMAIN path }

\* The step is the call of backpropagate that ends a simulation.
BackpropStep == pc = "backprop" /\ pc' = "loop"

\* C13: the call of backpropagate that ends a simulation finds in game_path
\* the edges of this simulation's descent, a connected path from the root
\* to the selected leaf with no edge twice; it adds 1 to N and the leaf's
\* value, the same for every edge, to W of each of these edges and of no
\* other, and 1 to N of the input node of each.
C13_BackpropagateOnPath ==
    [][BackpropStep =>
        LET path == tree.game_path
            value == nodes[leaf].value
        IN  /\ IsPath(path, tree.root, leaf)
            /\ Cardinality(OnPath(path)) = Len(path)
            /\ \A e \in DOMAIN edges :
                   IF e \in OnPath(path)
                   THEN /\ edges'[e].N = edges[e].N + 1
                        /\ edges'[e].W = edges[e].W + value
                   ELSE /\ edges'[e].N = edges[e].N
                        /\ edges'[e].W = edges[e].W
            /\ \A e \in OnPath(path) :
                   nodes'[edges[e].input_node].N =
                       nodes[edges[e].input_node].N + 1]_vars

\* C13 witness: a simulation that descended two edges to a leaf of value
\* other than 0 has just been backpropagated, in a tree searched before.
C13_Witness ==
    /\ pc = "loop"
    /\ Len(tree.game_path) = 2
    /\ edges[tree.game_path[1]].N >= 2
    /\ edges[tree.game_path[2]].N = 1
    /\ edges[tree.game_path[2]].W # 0
    /\ edges[tree.game_path[1]].W # edges[tree.game_path[2]].W


\* The index of edge e among the edges of its input node.
IndexOf(e) ==
    CHOOSE i \in DOMAIN nodes[edges[e].input_node].edges :
        nodes[edges[e].input_node].edges[i] = e

\* The noise select_child uses at node n when its sample for the root is z.
NoiseAt(n, z) ==
    IF tree.stochastic /\ n = tree.root THEN z
    ELSE no_noise(Len(nodes[n].edges))

\* Edge e has the greatest score among the edges of its input node, and is
\* the first of those that have it.
FirstGreatest(e, z) ==
    LET n == edges[e].input_node
        noise == NoiseAt(n, z)
        i == IndexOf(e)
        score(j) == upper_confidence_bound(nodes[n].edges[j], noise[j])
    IN  \A j \in DOMAIN nodes[n].edges :
            /\ j < i => greater(score(i), score(j))
            /\ j > i => ~greater(score(j), score(i))

\* C14: when select_child has returned, every edge of game_path has the
\* greatest upper-confidence score among the edges of its node, for the
\* noise drawn at the root of a stochastic tree, and is the first edge in
\* the order of node.edges with that score.  (The scores are those
\* select_child saw: leaf.N += 1 changes the score of no edge of the path.)
C14_GreatestScoreFirst ==
    pc = "expand" =>
        \E z \in noise_samples(tree) :
            \A k \in DOMAIN tree.game_path : FirstGreatest(tree.game_path[k], z)

\* C14 witness: in a tree without noise select_child has descended two
\* edges; the first is not the first edge of the root, and the second has
\* the same score as a later edge of its node.
C14_Witness ==
    /\ pc = "expand"
    /\ ~tree.stochastic
    /\ Len(tree.game_path) = 2
    /\ IndexOf(tree.game_path[1]) > 1
    /\ LET e == tree.game_path[2]
           n == edges[e].input_node
       IN  \E j \in DOMAIN nodes[n].edges :
               /\ j > IndexOf(e)
               /\ ~greater(upper_confidence_bound(e, << 1, 1 >>),
                           upper_confidence_bound(nodes[n].edges[j], << 1, 1 >>))


\* The step is the selection of a simulation's leaf, with leaf.N += 1.
SelectStep == pc = "loop" /\ pc' = "expand"

\* C15: no step removes an edge or a node, changes the prior, the action or
\* the end nodes of an edge, or lowers an edge's N; N and W of an edge change
\* only in the backpropagate of a simulation whose path has the edge; N of
\* a node changes only when the node is selected as the leaf of a simulation
\* or is the input node of an edge of the path that is backpropagated.
C15_SimulationFrame ==
    [][/\ Len(edges') >= Len(edges)
       /\ Len(nodes') >= Len(nodes)
       /\ \A e \in DOMAIN edges :
            /\ edges'[e].P = edges[e].P
            /\ edges'[e].action = edges[e].action
            /\ edges'[e].input_node = edges[e].input_node
            /\ edges'[e].output_node = edges[e].output_node
            /\ edges'[e].N >= edges[e].N
            /\ (edges'[e].N # edges[e].N \/ edges'[e].W # edges[e].W) =>
                   (BackpropStep /\ e \in OnPath(tree.game_path))
       /\ \A n \in DOMAIN nodes :
            nodes'[n].N # nodes[n].N =>
                \/ SelectStep /\ n = leaf'
                \/ /\ BackpropStep
                   /\ \E e \in OnPath(tree.game_path) : edges[e].input_node = n
      ]_vars

\* C15 witness: a simulation has been backpropagated along an edge of the
\* root while another edge of the root, visited before, kept its N.
C15_Witness ==
    /\ pc = "loop"
    /\ Len(tree.game_path) >= 1
    /\ \E i \in DOMAIN nodes[tree.root].edges :
        /\ nodes[tree.root].edges[i] \notin OnPath(tree.game_path)
        /\ edges[nodes[tree.root].edges[i]].N >= 1
    /\ nodes[tree.root].N >= 3


\* The output nodes of the edges of the nodes of S.
Children(S) ==
    UNION { { edges[nodes[n].edges[i]].output_node :
                  i \in DOMAIN nodes[n].edges } : n \in S }

\* The nodes reached from the nodes of S along at most k edges.
RECURSIVE ReachFrom(_, _)
ReachFrom(S, k) ==
    IF k = 0 \/ Children(S) \subseteq S THEN S
    ELSE ReachFrom(S \cup Children(S), k - 1)

\* The nodes reachable from node n.
Reachable(n) == ReachFrom({n}, Len(nodes))

\* The edges of the nodes reachable from node n.
ReachableEdges(n) ==
    UNION { { nodes[m].edges[i] : i \in DOMAIN nodes[m].edges } :
                m \in Reachable(n) }

\* C16: in every state, for every tree: each edge in node.edges of a
\* reachable node has that node as its input_node and occurs there once;
\* each reachable node but the root is the output_node of exactly one
\* reachable edge, the root of none; and no reachable node is reached from
\* its own children (no cycle).
C16_RootedOutTree ==
    \A t \in DOMAIN trees :
        LET root == trees[t].root
            R == Reachable(root)
            E == ReachableEdges(root)
        IN  /\ \A n \in R :
                /\ \A i \in DOMAIN nodes[n].edges :
                       edges[nodes[n].edges[i]].input_node = n
                /\ \A i, j \in DOMAIN nodes[n].edges :
                       i # j => nodes[n].edges[i] # nodes[n].edges[j]
                /\ n \notin ReachFrom(Children({n}), Len(nodes))
            /\ \A n \in R \ {root} :
                   Cardinality({ e \in E : edges[e].output_node = n }) = 1
            /\ \A e \in E : edges[e].output_node # root

\* C16 witness: a tree is re-rooted at a node that has a parent and has at
\* least three nodes below and including its new root, and a tree made after
\* the two the agents started with exists beside it.
C16_Witness ==
    /\ \E t \in DOMAIN trees :
        /\ HasParent(trees[t].root)
        /\ \E n \in Reachable(trees[t].root) : Below(trees[t].root, n) >= 1
        /\ Cardinality(Reachable(trees[t].root)) >= 3
    /\ Len(trees) >= 3


\* The step is the call of the evaluator in expand.
PredictStep == pc = "expand" /\ pc' = "spawn"

\* The step is the assignment leaf.value = v in expand.
ValueStep == pc = "children" /\ pc' # "children"

\* C17: a node whose position has legal moves is the selected leaf of at
\* most one simulation, and once expanded it has edges and is no leaf; only
\* a node without legal moves is selected again.  The evaluator is called,
\* and leaf.value = v is done, only for a leaf selected for the first time,
\* once in the simulation that selected it: expand is entered only from the
\* selection, the evaluator is called only on entering expand, and the
\* value is assigned only after the threads, at the end of that expand; no
\* other step changes the value of a node whose position has legal moves.
C17_ExpandOnce ==
    /\ [](\A n \in DOMAIN nodes :
            generate_legal_moves(nodes[n].state) # << >> =>
                /\ leafSel[n] <= 1
                /\ Expanded(n) => ~is_leaf(n))
    /\ [][/\ (PredictStep \/ ValueStep) =>
                /\ leafSel[leaf] = 1
                /\ nodes[leaf].edges = << >>
          /\ pc' = "expand" => (pc = "loop" \/ pc = "expand")
          /\ pc' = "spawn" => (pc = "expand" \/ pc = "spawn")
          /\ pc' = "children" => (pc = "join" \/ pc = "children")
          /\ \A n \in DOMAIN nodes :
                (/\ generate_legal_moves(nodes[n].state) # << >>
                 /\ nodes'[n].value # nodes[n].value)
                => (ValueStep /\ n = leaf)
         ]_vars

\* C17 witness: a node made by expand that has no legal moves has been the
\* selected leaf of two simulations, and its parent, which has legal moves,
\* of one, which gave it its value and its edges.
C17_Witness ==
    \E n \in DOMAIN nodes :
        /\ generate_legal_moves(nodes[n].state) = << >>
        /\ leafSel[n] = 2
        /\ \E e \in DOMAIN edges :
            /\ edges[e].output_node = n
            /\ leafSel[edges[e].input_node] = 1
            /\ nodes[edges[e].input_node].edges # << >>
            /\ nodes[edges[e].input_node].value # 0


\* The nodes and edges of n's subtree with their fields, as a function of
\* the state of the heap.
SubtreeNodes(ns, es, n) == [m \in Subtree(n) |-> ns[m]]
SubtreeEdges(ns, es, n) ==
    [e \in { f \in DOMAIN es : es[f].input_node \in Subtree(n) } |-> es[e]]

\* C18: the step of play_move that makes a node two edges below the root
\* the new root changes no node and no edge, in the new root's subtree or
\* elsewhere, so N and value of the nodes and N, W, P and action of the edges
\* of the subtree are what they were; and when the simulations of that call
\* are done the new root's N counts every simulation that ever visited it,
\* those before the re-rooting and the SIMULATIONS_PER_MOVE after it, and
\* the visits of its edges, if it has edges, sum to that N less 1.
C18_ReRootKeepsStatistics ==
    /\ [][\A stochastic \in BOOLEAN : \A previous_moves \in PreviousMoves :
            LET t == mcts[CurrentPlayer]
                target == TwoBelow(trees[t].root, previous_moves)
            IN  (/\ \/ play_move(stochastic, previous_moves)
                    \/ play_move_after_search(stochastic, previous_moves)
                 /\ target # None)
                =>  /\ trees'[mcts'[CurrentPlayer]].root = target
                    /\ SubtreeNodes(nodes', edges', target) =
                           SubtreeNodes(nodes, edges, target)
                    /\ SubtreeEdges(nodes', edges', target) =
                           SubtreeEdges(nodes, edges, target)
                    /\ nodes' = nodes
                    /\ edges' = edges]_vars
    /\ []((pc = "play_move" /\ pm.branch = "reroot") =>
            /\ nodes[tree.root].N = leafSel[tree.root] + passed[tree.root]
            /\ nodes[tree.root].N >= SIMULATIONS_PER_MOVE
            /\ nodes[tree.root].edges # << >> =>
                   sum_N(edges, nodes[tree.root].edges) = nodes[tree.root].N - 1)

\* C18 witness: the simulations of a play_move that re-rooted the tree are
\* done, and the new root, visited before the re-rooting, has more visits
\* than these simulations alone gave it.
C18_Witness ==
    /\ pc = "play_move"
    /\ pm.branch = "reroot"
    /\ HasParent(tree.root)
    /\ nodes[tree.root].N > SIMULATIONS_PER_MOVE


\* play_move is running: from its call of run_simulations to its return.
InPlayMove ==
    \/ pc = "play_move"
    \/ pc = "loop" /\ retTo = "play_move"
    \/ pc \in {"expand", "spawn", "join", "children", "backprop"}
         /\ retTo = "play_move"

\* Every move of the position was legal when it was played.
LegalGame(s) ==
    \A k \in DOMAIN s :
        \E i \in DOMAIN generate_legal_moves(SubSeq(s, 1, k - 1)) :
            generate_legal_moves(SubSeq(s, 1, k - 1))[i] = s[k]

\* C19: in a game played by play_one_game, of any length up to the end of
\* the game: while play_move runs its simulations and until it returns, the
\* tree searched is the current player's and its root holds the position of
\* the board, for a new tree as for a re-rooted one; every move on the board
\* was a legal move of the position it was played in; and after each call
\* the pair returned holds, second, an edge whose action is the move just
\* played, made from the root that held the position before the move, and
\* first, the edge returned second by the call before, whose action is the
\* opponent's last move (None after the first move of the game).
C19_RootIsBoard ==
    /\ InPlayMove =>
        /\ cur = CurrentPlayer
        /\ nodes[tree.root].state = board
    /\ LegalGame(board)
    /\ (pc = "idle" /\ pmCount >= 1 /\ err = "none") =>
        /\ Len(board) = pmCount
        /\ result[2] # None
        /\ edges[result[2]].action = board[Len(board)]
        /\ nodes[edges[result[2]].input_node].state =
               SubSeq(board, 1, Len(board) - 1)
        /\ nodes[edges[result[2]].output_node].state = board
        /\ IF pmCount = 1 THEN result[1] = None
           ELSE /\ result[1] # None
                /\ edges[result[1]].action = board[Len(board) - 1]
                /\ nodes[edges[result[1]].output_node].state =
                       SubSeq(board, 1, Len(board) - 1)

\* C19 witness: the third move of a game has been played from a tree that
\* was re-rooted through the two moves before it.
C19_Witness ==
    /\ pc = "idle"
    /\ err = "none"
    /\ pmCount = 3
    /\ Len(board) = 3
    /\ HasParent(trees[mcts["white"]].root)
    /\ nodes[trees[mcts["white"]].root].state = SubSeq(board, 1, 2)
    /\ edges[result[2]].input_node = trees[mcts["white"]].root


\* The sum of the numerators of the values of dictionary d over the keys K.
RECURSIVE SumOver(_, _)
SumOver(d, K) ==
    IF K = {} THEN 0
    ELSE LET k == CHOOSE x \in K : TRUE
         IN  d[k][1] + SumOver(d, K \ {k})

\* C20: when the simulations of play_move are done on a root whose position
\* is not game-over, the root has an edge and the visits of its edges sum
\* to at least 1, to SIMULATIONS_PER_MOVE - 1 when the tree was made by this
\* call; so neither division by sum_move_visits is by zero, the choice of
\* the move raises nothing, and the search probabilities saved, one per
\* move, are fractions of that sum whose numerators add up to it.
C20_NoDivisionByZero ==
    (/\ SIMULATIONS_PER_MOVE >= 2
     /\ pc = "play_move"
     /\ ~is_game_over(nodes[tree.root].state)) =>
        LET moves == nodes[tree.root].edges
            sum_move_visits == sum_N(edges, moves)
            d == search_probabilities(moves, sum_move_visits, << >>)
        IN  /\ Len(moves) >= 1
            /\ sum_move_visits >= 1
            /\ pm.branch \in {"new", "except"} =>
                   sum_move_visits = SIMULATIONS_PER_MOVE - 1
            /\ play_move_error(moves) = "none"
            /\ Cardinality(DOMAIN d) = Len(moves)
            /\ \A k \in DOMAIN d : d[k][2] = sum_move_visits
            /\ SumOver(d, DOMAIN d) = sum_move_visits
            /\ best_moves(moves, TRUE) # {}
            /\ best_moves(moves, FALSE) # {}

\* C20 witness: the simulations of play_move are done on a tree this call
\* made for a position with two legal moves; one edge has the one visit.
C20_Witness ==
    /\ pc = "play_move"
    /\ pm.branch = "new"
    /\ Len(nodes[tree.root].edges) = 2
    /\ sum_N(edges, nodes[tree.root].edges) = 1
    /\ ~is_game_over(nodes[tree.root].state)



\* play_one_game has returned.
Returned == pc = "returned"

\* Every entry of the last game in the memory carries the winner.
Labelled(winner) ==
    \A i \in DOMAIN memory[Len(memory)] :
        memory[Len(memory)][i].winner = winner

\* C21: play_one_game leaves its move loop and returns, having called
\* play_move at most MAX_GAME_MOVES + 1 times and raised nothing.  When it
\* has returned: the game is recorded as not full exactly if the limit check
\* fired, which it does only at the call that takes the counter past
\* MAX_GAME_MOVES, and its winner is then the estimated one; otherwise the
\* board's game is over, the game is recorded as full, and its winner is the
\* one of the board's result (1 white, -1 black, 0 a draw).  Either way one
\* memory entry per move was saved and each carries the winner returned.
C21_GameLoopEnds ==
    /\ [](pmCount <= MAX_GAME_MOVES + 1 /\ err = "none")
    /\ [](Returned =>
            /\ result.full_game <=> pmCount <= MAX_GAME_MOVES
            /\ ~result.full_game =>
                  /\ pmCount = MAX_GAME_MOVES + 1
                  /\ result.winner_from = "estimate_winner"
                  /\ result.winner \in EstimatedWinners
            /\ result.full_game =>
                  /\ is_game_over(board)
                  /\ result.winner_from = "board.result"
                  /\ result.winner =
                        (IF outcome(board).winner = WHITE THEN "1"
                         ELSE IF outcome(board).winner = BLACK THEN "-1"
                         ELSE "0")
            /\ Len(memory[Len(memory)]) = pmCount
            /\ Len(board) = pmCount
            /\ Labelled(result.winner))
    /\ <>Returned

\* C21 witness: the game was stopped by the limit with the board's game
\* still going on, after MAX_GAME_MOVES + 1 moves.
C21_Witness ==
    /\ Returned
    /\ ~result.full_game
    /\ ~is_game_over(board)
    /\ pmCount = MAX_GAME_MOVES + 1
    /\ Len(memory[Len(memory)]) = MAX_GAME_MOVES + 1



\* C22: in train_puzzles no puzzle's turn ends in an error, and of the
\* puzzles it has dealt with, each one whose game reached game-over within
\* the move limit was saved with every memory entry labelled with a winner,
\* and each one that passed MAX_PUZZLE_MOVES was skipped, whatever happened
\* to the puzzles before it.
C22_PuzzlesSavedOrSkipped ==
    /\ tp.at # "raised"
    /\ \A i \in DOMAIN tp.log :
        LET e == tp.log[i]
        IN  /\ ~e.exceeded =>
                /\ e.saved
                /\ \A k \in DOMAIN memory[e.game] :
                       memory[e.game][k].winner # NoWinner
            /\ e.exceeded => ~e.saved



\* The trees whose root exploration is stochastic.
StochasticTrees == { t \in DOMAIN trees : trees[t].stochastic }

\* Edge e is the first edge with the greatest score among the edges of its
\* input node, the scores taken without noise.
FirstGreatestUnperturbed(e) ==
    LET n == edges[e].input_node
        noise == no_noise(Len(nodes[n].edges))
        i == IndexOf(e)
        score(j) == upper_confidence_bound(nodes[n].edges[j], noise[j])
    IN  \A j \in DOMAIN nodes[n].edges :
            /\ j < i => greater(score(i), score(j))
            /\ j > i => ~greater(score(j), score(i))

\* The first of the edges with the highest N.
FirstHighestN(moves, e) ==
    \E i \in DOMAIN moves :
        /\ moves[i] = e
        /\ \A k \in DOMAIN moves : edges[moves[k]].N <= edges[e].N
        /\ \A k \in 1 .. i - 1 : edges[moves[k]].N < edges[e].N

\* C23: whatever play_move is given for stochastic, a tree it creates (with
\* no two previous moves, or in the fallback) is a new MCTS object for the
\* current player, rooted at the board's position, with stochastic root
\* exploration off, and a tree it re-roots keeps the setting it had; so every
\* stochastic tree was constructed by a direct caller and none by play_move
\* or for an agent.  While play_move searches a tree it created, every edge
\* select_child descends through, the one at the root included, is the first
\* with the greatest score without noise.  The argument is kept for the
\* final choice only: without it the move played is the first root edge with
\* the highest N, with it a root edge that was visited; the choice changes
\* no tree.
C23_NoRootNoiseInPlay ==
    /\ [](Cardinality(StochasticTrees) <= treeCount)
    /\ [][\A st \in BOOLEAN, pmv \in PreviousMoves :
            play_move(st, pmv) =>
              LET t == mcts'[CurrentPlayer]
              IN  /\ pm'.stochastic = st
                  /\ pm'.branch \in {"new", "except"} =>
                        /\ t = Len(trees) + 1
                        /\ ~trees'[t].stochastic
                        /\ nodes'[trees'[t].root] = Node(board)
                  /\ pm'.branch = "reroot" =>
                        /\ t = mcts[CurrentPlayer]
                        /\ trees'[t].stochastic = trees[t].stochastic]_vars
    /\ []((InPlayMove /\ pm.branch \in {"new", "except"}) =>
            /\ ~tree.stochastic
            /\ pc = "expand" =>
                  \A i \in DOMAIN tree.game_path :
                      FirstGreatestUnperturbed(tree.game_path[i]))
    /\ [][(PlayMoveFinish /\ err' = "none") =>
            /\ \E i \in DOMAIN nodes[tree.root].edges :
                   /\ nodes[tree.root].edges[i] = result'[2]
                   /\ edges[result'[2]].N > 0
            /\ ~pm.stochastic =>
                   FirstHighestN(nodes[tree.root].edges, result'[2])
            /\ UNCHANGED heapVars]_vars

\* C23 witness: play_move was called with stochastic = True and made a new
\* tree; a simulation has descended from its root, which has edges, and the
\* tree is not stochastic.
C23_Witness ==
    /\ pc = "expand"
    /\ retTo = "play_move"
    /\ pm.stochastic
    /\ pm.branch = "new"
    /\ ~tree.stochastic
    /\ tree.game_path # << >>
    /\ edges[tree.game_path[1]].input_node = tree.root
    /\ Len(nodes[tree.root].edges) >= 2

====
